---- MODULE Spec2Model ----
(***************************************************************************)
(* Parts Service: the request handler of src/parts_service/lambda_handler  *)
(* over one DynamoDB table keyed by (PK, SK).  One step of the model is    *)
(* one invocation of lambda_handler on an inbound event.                   *)
(***************************************************************************)
EXTENDS Integers, Sequences, FiniteSets, TLC

VARIABLES
    table,      \* the DynamoDB table: the set of stored items
    clock,      \* number of timestamps get_current_timestamp has handed out
    issued,     \* number of uuids uuid.uuid4 has handed out
    event,      \* the inbound event of the last invocation
    env,        \* the collaborators' condition during the last invocation
    op,         \* the CRUD operation the last invocation ran ("" for none)
    response,   \* what the last invocation returned
    before,     \* the table as it was when the last invocation started
    created,    \* responses of the successful Creates, by returned uuid
    deleted,    \* uuids for which a Delete had returned 200 before the last invocation
    touched,    \* uuids whose record an Update or Delete has written
    probe,      \* result of the last direct call of a protocol-adapter function
    inflight    \* the concurrent invocations: each one's position and local values

vars == <<table, clock, issued, event, env, op, response, before, created,
          deleted, touched, probe, inflight>>

-----------------------------------------------------------------------------
(* Bounds *)

\* how many timestamps may be handed out in one behaviour
MaxTime == 3

\* how many uuids may be handed out in one behaviour
MaxParts == 2

\* how many invocations may run concurrently in one behaviour
MaxProcs == 2

-----------------------------------------------------------------------------
(* JSON / Python values.  Every value is a record of one shape; numbers    *)
(* are kept in tenths so that 5, 5.0 and 5.5 are 50, 50 and 55.            *)

Absent == "<absent>"

VStr(x) == [t |-> "str", s |-> x, n |-> 0, l |-> <<>>]
VInt(k) == [t |-> "int", s |-> "", n |-> 10 * k, l |-> <<>>]
VFlt(tenths) == [t |-> "float", s |-> "", n |-> tenths, l |-> <<>>]
VDec(tenths) == [t |-> "dec", s |-> "", n |-> tenths, l |-> <<>>]
VNull == [t |-> "null", s |-> "", n |-> 0, l |-> <<>>]
VList(elems) == [t |-> "list", s |-> "", n |-> 0, l |-> elems]
VTs(k) == [t |-> "str", s |-> "ts", n |-> k, l |-> <<>>]

\* an element of an additionalFields list: a JSON object with optional
\* fieldName, codedValue, referenceFieldNumber, or a non-object (isDict FALSE)
Elem(fn, cv, ref) == [isDict |-> TRUE, fieldName |-> fn, codedValue |-> cv, ref |-> ref]
NonDictElem == [isDict |-> FALSE, fieldName |-> Absent, codedValue |-> Absent, ref |-> "none"]

\* a JSON object as the ordered list of its members
KV(k, v) == [k |-> k, v |-> v]

Keys(obj) == {obj[i].k : i \in 1..Len(obj)}

\* a Python dict / DynamoDB item as a function from attribute names
EmptyItem == [a \in {} |-> VNull]

Put(item, key, v) == [a \in DOMAIN item \cup {key} |-> IF a = key THEN v ELSE item[a]]

\* {**a, **b}: b's entries override a's
Merge(a, b) == [k \in DOMAIN a \cup DOMAIN b |-> IF k \in DOMAIN b THEN b[k] ELSE a[k]]

-----------------------------------------------------------------------------
(* get_current_timestamp and uuid.uuid4 *)

get_current_timestamp(clk) == VTs(clk)

UuidPool == <<"u1", "u2", "u3", "u4">>

uuid4(n) == UuidPool[n + 1]

-----------------------------------------------------------------------------
(* Validator *)

RECURSIVE Join(_, _)
\* ", ".join(names)
Join(names, sep) ==
    IF Len(names) = 0 THEN ""
    ELSE IF Len(names) = 1 THEN names[1]
    ELSE names[1] \o sep \o Join(Tail(names), sep)

\* [f for f in names if f not in present], in the order of names
Missing(names, present) == SelectSeq(names, LAMBDA f : f \notin present)

\* the message of the PartValidationError raised, "" when none is raised
validate_required_fields(data, required_fields) ==
    LET missing_fields == Missing(required_fields, Keys(data))
    IN  IF Len(missing_fields) > 0
        THEN "Missing required fields: " \o Join(missing_fields, ", ")
        ELSE ""

ElemKeys(field) ==
    {k \in {"fieldName", "codedValue"} :
        \/ k = "fieldName" /\ field.fieldName # Absent
        \/ k = "codedValue" /\ field.codedValue # Absent}

RECURSIVE validate_additional_fields(_)
\* the message of the PartValidationError raised, "" when none is raised
validate_additional_fields(additional_fields) ==
    IF Len(additional_fields) = 0 THEN ""
    ELSE LET field == Head(additional_fields)
             missing == Missing(<<"fieldName", "codedValue">>, ElemKeys(field))
         IN  IF ~field.isDict
             THEN "additionalFields must be an array of objects"
             ELSE IF Len(missing) > 0
             THEN "Missing required fields in additionalFields: " \o Join(missing, ", ")
             ELSE validate_additional_fields(Tail(additional_fields))

\* mutant: the storage keys listed among the accepted fields
valid_fields_WithKeys ==
    "PK" :> "str" @@ "SK" :> "str" @@
    "accountId" :> "str" @@ "customerId" :> "str" @@ "locationId" :> "str" @@
    "categoryProductId" :> "number" @@ "categoryId" :> "number" @@
    "category" :> "str" @@ "segmentId" :> "number" @@ "segment" :> "str" @@
    "partTerminologyId" :> "number" @@ "partTerminologyName" :> "str" @@
    "additionalFields" :> "list"

valid_fields ==
    "accountId" :> "str" @@ "customerId" :> "str" @@ "locationId" :> "str" @@
    "categoryProductId" :> "number" @@ "categoryId" :> "number" @@
    "category" :> "str" @@ "segmentId" :> "number" @@ "segment" :> "str" @@
    "partTerminologyId" :> "number" @@ "partTerminologyName" :> "str" @@
    "additionalFields" :> "list"

\* mutant: a number must be an int
IsInstance_IntOnly(value, expected_type) ==
    CASE expected_type = "str" -> value.t = "str"
      [] expected_type = "number" -> value.t = "int"
      [] expected_type = "list" -> value.t = "list"

\* isinstance(value, expected_type)
IsInstance(value, expected_type) ==
    CASE expected_type = "str" -> value.t = "str"
      [] expected_type = "number" -> value.t \in {"int", "float"}
      [] expected_type = "list" -> value.t = "list"

\* the strings of the model that Python's int() and float() accept, with
\* their values in tenths; every other string makes them raise ValueError
IntLiterals == "5" :> 50 @@ "7" :> 70
FloatLiterals == "5.5" :> 55 @@ "5.0" :> 50

\* "." in str(value), for a string value
HasDot(s) == s \in {"5.5", "5.0", "a.b"}

\* mutant: int(value) whatever the string
Coerce_IntOnly(value) ==
    IF value.t # "str" THEN [ok |-> FALSE, value |-> VNull]
    ELSE IF value.s \in DOMAIN IntLiterals
         THEN [ok |-> TRUE, value |-> [VInt(0) EXCEPT !.n = IntLiterals[value.s]]]
         ELSE [ok |-> FALSE, value |-> VNull]

\* float(value) if "." in str(value) else int(value); ok FALSE when it
\* raises ValueError or TypeError
Coerce(value) ==
    IF value.t # "str" THEN [ok |-> FALSE, value |-> VNull]
    ELSE IF HasDot(value.s)
    THEN IF value.s \in DOMAIN FloatLiterals
         THEN [ok |-> TRUE, value |-> VFlt(FloatLiterals[value.s])]
         ELSE [ok |-> FALSE, value |-> VNull]
    ELSE IF value.s \in DOMAIN IntLiterals
         THEN [ok |-> TRUE, value |-> [VInt(0) EXCEPT !.n = IntLiterals[value.s]]]
         ELSE [ok |-> FALSE, value |-> VNull]

NumericFields == {"categoryProductId", "categoryId", "segmentId", "partTerminologyId"}

Valid(cleaned) == [ok |-> TRUE, error |-> "", data |-> cleaned]
Invalid(msg) == [ok |-> FALSE, error |-> msg, data |-> EmptyItem]

\* the order in which a part's fields are listed
FieldOrder ==
    <<"accountId", "customerId", "locationId", "categoryProductId", "categoryId",
      "category", "segmentId", "segment", "partTerminologyId", "partTerminologyName",
      "additionalFields">>

RECURSIVE ItemsFrom(_, _)
\* cleaned.items(), from field k of FieldOrder on
ItemsFrom(cleaned, k) ==
    IF k > Len(FieldOrder) THEN <<>>
    ELSE (IF FieldOrder[k] \in DOMAIN cleaned
          THEN <<KV(FieldOrder[k], cleaned[FieldOrder[k]])>>
          ELSE <<>>) \o ItemsFrom(cleaned, k + 1)

RECURSIVE ValidateFields_KeepUnknown(_, _, _)
\* mutant: a field that is not in valid_fields is copied to the output
ValidateFields_KeepUnknown(data, i, cleaned_data) ==
    IF i > Len(data) THEN Valid(cleaned_data)
    ELSE LET field == data[i].k
             value == data[i].v
         IN  IF field \notin DOMAIN valid_fields
             THEN ValidateFields_KeepUnknown(data, i + 1, Put(cleaned_data, field, value))
             ELSE IF ~IsInstance(value, valid_fields[field])
             THEN IF field \in NumericFields
                  THEN IF Coerce(value).ok
                       THEN ValidateFields_KeepUnknown(data, i + 1,
                                           Put(cleaned_data, field, Coerce(value).value))
                       ELSE Invalid("Field " \o field \o " must be a number")
                  ELSE Invalid("Field " \o field \o " must be of type "
                               \o valid_fields[field])
             ELSE IF field = "additionalFields" /\ Len(value.l) > 0
                     /\ validate_additional_fields(value.l) # ""
             THEN Invalid(validate_additional_fields(value.l))
             ELSE ValidateFields_KeepUnknown(data, i + 1, Put(cleaned_data, field, value))

RECURSIVE ValidateFields(_, _, _)
\* the loop over data.items(), from member i on
ValidateFields(data, i, cleaned_data) ==
    IF i > Len(data) THEN Valid(cleaned_data)
    ELSE LET field == data[i].k
             value == data[i].v
         IN  IF field \notin DOMAIN valid_fields
             THEN ValidateFields(data, i + 1, cleaned_data)
             ELSE IF ~IsInstance(value, valid_fields[field])
             THEN IF field \in NumericFields
                  THEN IF Coerce(value).ok
                       THEN ValidateFields(data, i + 1,
                                           Put(cleaned_data, field, Coerce(value).value))
                       ELSE Invalid("Field " \o field \o " must be a number")
                  ELSE Invalid("Field " \o field \o " must be of type "
                               \o valid_fields[field])
             ELSE IF field = "additionalFields" /\ Len(value.l) > 0
                     /\ validate_additional_fields(value.l) # ""
             THEN Invalid(validate_additional_fields(value.l))
             ELSE ValidateFields(data, i + 1, Put(cleaned_data, field, value))

\* mutant: segment not required
required_fields_WithoutSegment == <<"accountId", "category", "partTerminologyName">>

required_fields == <<"accountId", "category", "segment", "partTerminologyName">>

validate_part_data(data, is_update) ==
    IF ~is_update /\ validate_required_fields(data, required_fields) # ""
    THEN Invalid(validate_required_fields(data, required_fields))
    ELSE ValidateFields(data, 1, EmptyItem)

-----------------------------------------------------------------------------
(* Collaborators: table-name resolution and the DynamoDB table *)

\* get_table_name(): "" when it returns a name, else the exception it raises.
\* e.secretName / e.fallback: SECRET_NAME / DYNAMODB_TABLE_NAME are set;
\* e.secret: what Secrets Manager answers.
get_table_name(e) ==
    IF ~e.secretName
    THEN IF ~e.fallback THEN "ValueError" ELSE ""
    ELSE CASE e.secret = "ClientError" -> IF e.fallback THEN "" ELSE "ValueError"
           [] e.secret = "NotJson" -> "JSONDecodeError"
           [] e.secret = "NoTableName" -> IF e.fallback THEN "" ELSE "ValueError"
           [] e.secret = "NotObject" -> "AttributeError"
           [] e.secret = "TableName" -> ""

\* boto3 refuses Python floats when it serializes an item
ElemSerializable(el) == el.ref # "float"

Serializable(v) ==
    /\ v.t # "float"
    /\ \A i \in 1..Len(v.l) : ElemSerializable(v.l[i])

\* a value as DynamoDB keeps it: every number is a Decimal
StoredElem(el) == IF el.ref = "int" THEN [el EXCEPT !.ref = "dec"] ELSE el

StoredValue(v) ==
    IF v.t = "int" THEN VDec(v.n)
    ELSE [v EXCEPT !.l = [i \in 1..Len(v.l) |-> StoredElem(v.l[i])]]

StoredItem(item) == [a \in DOMAIN item |-> StoredValue(item[a])]

HasKey(item, pk, sk) == item["PK"] = pk /\ item["SK"] = sk

\* table.put_item(Item=item): replaces the item of the same key
put_item(tbl, item) ==
    {i \in tbl : ~HasKey(i, item["PK"], item["SK"])} \cup {StoredItem(item)}

\* mutant: the write replaces the whole item by the key and the attributes set
update_item_Replace(tbl, pk, sk, sets) ==
    {i \in tbl : ~HasKey(i, pk, sk)}
        \cup {Merge(("PK" :> pk @@ "SK" :> sk), StoredItem(sets))}

\* table.update_item(Key, "SET a = :a, ..."): sets the attributes on the item
\* of that key, creating the item when the key is not in the table
update_item(tbl, pk, sk, sets) ==
    IF \E i \in tbl : HasKey(i, pk, sk)
    THEN {IF HasKey(i, pk, sk) THEN Merge(i, StoredItem(sets)) ELSE i : i \in tbl}
    ELSE tbl \cup {Merge(("PK" :> pk @@ "SK" :> sk), StoredItem(sets))}

\* the order of sort keys within one partition
SortKeys == <<"a1", "a2">>

SkRank(item) ==
    IF \E r \in 1..Len(SortKeys) : SortKeys[r] = item["SK"].s
    THEN CHOOSE r \in 1..Len(SortKeys) : SortKeys[r] = item["SK"].s
    ELSE 0

\* mutant: the query without its FilterExpression
Query_WithoutFilter(tbl, part_uuid) ==
    {i \in tbl : i["PK"] = VStr(part_uuid)}

\* table.query(PK = part_uuid, filter deletedAt not_exists)["Items"]
Query(tbl, part_uuid) ==
    {i \in tbl : i["PK"] = VStr(part_uuid) /\ "deletedAt" \notin DOMAIN i}

NoItem == [found |-> FALSE, item |-> EmptyItem]

\* items[0] if items else None
get_part_by_uuid(tbl, part_uuid) ==
    LET items == Query(tbl, part_uuid)
    IN  IF items = {} THEN NoItem
        ELSE [found |-> TRUE,
              item |-> CHOOSE i \in items : \A j \in items : SkRank(i) <= SkRank(j)]

-----------------------------------------------------------------------------
(* Responses *)

\* the JSON body of a response; absent members are "" / "absent"
Body(error, message, uuid, partKind, part) ==
    [error |-> error, message |-> message, uuid |-> uuid,
     partKind |-> partKind, part |-> part]

ErrorBody(msg) == Body(msg, "", "", "absent", EmptyItem)

\* a gateway-style response {statusCode, body}
Response(statusCode, body) == [shape |-> "gateway", statusCode |-> statusCode, body |-> body]

InternalError == Response(500, ErrorBody("Internal server error"))

\* json.dumps(..., default=decimal_default): a Decimal is written as a float
JsonElem(el) == IF el.ref = "dec" THEN [el EXCEPT !.ref = "float"] ELSE el

\* mutant: a Decimal written as its string
decimal_default_AsString(v) ==
    IF v.t = "dec" THEN VStr("decimal") ELSE v

decimal_default(v) ==
    IF v.t = "dec" THEN VFlt(v.n)
    ELSE [v EXCEPT !.l = [i \in 1..Len(v.l) |-> JsonElem(v.l[i])]]

JsonItem(item) == [a \in DOMAIN item |-> decimal_default(item[a])]

\* what one call leaves behind: the CRUD operation that ran ("" for none),
\* its response and the new state
Result(ran, resp, tbl, clk, iss) ==
    [ran |-> ran, response |-> resp, table |-> tbl, clock |-> clk, issued |-> iss]

-----------------------------------------------------------------------------
(* Request parsing shared by the CRUD operations *)

\* path_params.get("uuid") if path_params else None; "" stands for None
PathUuid(ev) == IF ev.pathParameters.kind = "uuid" THEN ev.pathParameters.uuid ELSE ""

\* json.loads(event.get("body", "{}")) followed by body.get("part"):
\* the exception raised, or "" with the part
ParseBody(ev) ==
    CASE ev.body.kind = "absent" -> [exc |-> "", part |-> [kind |-> "absent", data |-> <<>>]]
      [] ev.body.kind = "null" -> [exc |-> "TypeError", part |-> ev.body.part]
      [] ev.body.kind = "badjson" -> [exc |-> "JSONDecodeError", part |-> ev.body.part]
      [] ev.body.kind = "nonobj" -> [exc |-> "AttributeError", part |-> ev.body.part]
      [] ev.body.kind = "obj" -> [exc |-> "", part |-> ev.body.part]

\* not part_data
Falsy(part) == part.kind \in {"absent", "null", "empty"}

-----------------------------------------------------------------------------
(* CRUD operations.  e.failAt = k makes the k-th call on the table within  *)
(* the invocation raise ClientError (0: none does).                        *)

\* the item create_part builds
NewItem(part_uuid, current_time, validated_data) ==
    Merge("PK" :> VStr(part_uuid) @@ "SK" :> validated_data["accountId"]
          @@ "createdAt" :> current_time,
          validated_data)

create_part(ev, e, tbl, clk, iss) ==
    LET parsed == ParseBody(ev)
        part_data == parsed.part
        \* "accountId" not in "some string" holds for every required field
        validated_data == validate_part_data(
            IF part_data.kind = "obj" THEN part_data.data ELSE <<>>, FALSE)
        part_uuid == uuid4(iss)
        current_time == get_current_timestamp(clk)
        item == NewItem(part_uuid, current_time, validated_data.data)
        same(resp) == Result("create_part", resp, tbl, clk, iss)
        used(resp) == Result("create_part", resp, tbl, clk + 1, iss + 1)
    IN  IF parsed.exc = "JSONDecodeError"
        THEN same(Response(400, ErrorBody("Invalid JSON in request body")))
        ELSE IF parsed.exc # "" THEN same(InternalError)
        ELSE IF Falsy(part_data)
        THEN same(Response(400, ErrorBody("Missing 'part' in request body")))
        ELSE IF ~validated_data.ok
        THEN same(Response(400, ErrorBody(validated_data.error)))
        ELSE IF get_table_name(e) = "JSONDecodeError"
        THEN used(Response(400, ErrorBody("Invalid JSON in request body")))
        ELSE IF get_table_name(e) # "" THEN used(InternalError)
        ELSE IF e.failAt = 1 \/ \E a \in DOMAIN item : ~Serializable(item[a])
        THEN used(InternalError)
        ELSE Result("create_part", Response(201, Body("", "Part created successfully", part_uuid,
                                       "object", JsonItem(item))),
                    put_item(tbl, item), clk + 1, iss + 1)

\* mutant: a missing part answered 200 with a null part
get_part_WithoutNotFound(ev, e, tbl, clk, iss) ==
    LET part_uuid == PathUuid(ev)
        part == get_part_by_uuid(tbl, part_uuid)
        same(resp) == Result("get_part", resp, tbl, clk, iss)
    IN  IF part_uuid = ""
        THEN same(Response(400, ErrorBody("Missing UUID in path parameters")))
        ELSE IF get_table_name(e) # "" \/ e.failAt = 1 THEN same(InternalError)
        ELSE same(Response(200, Body("", "", "", IF part.found THEN "object" ELSE "null",
                                     JsonItem(part.item))))

get_part(ev, e, tbl, clk, iss) ==
    LET part_uuid == PathUuid(ev)
        part == get_part_by_uuid(tbl, part_uuid)
        same(resp) == Result("get_part", resp, tbl, clk, iss)
    IN  IF part_uuid = ""
        THEN same(Response(400, ErrorBody("Missing UUID in path parameters")))
        ELSE IF get_table_name(e) # "" \/ e.failAt = 1 THEN same(InternalError)
        ELSE IF ~part.found THEN same(Response(404, ErrorBody("Part not found")))
        ELSE same(Response(200, Body("", "", "", "object", JsonItem(part.item))))

\* mutant: the reserved words without "segment"
reserved_keywords_WithoutSegment ==
    {"category", "status", "name", "size", "type", "data", "count", "group",
     "order", "range", "key", "value", "time", "date"}

reserved_keywords ==
    {"segment", "category", "status", "name", "size", "type", "data", "count",
     "group", "order", "range", "key", "value", "time", "date"}

\* str.lower() on the field names validate_part_data lets through
LowerCase ==
    [f \in {"category", "segment"} |-> f]
    @@ "accountId" :> "accountid" @@ "customerId" :> "customerid"
    @@ "locationId" :> "locationid" @@ "categoryProductId" :> "categoryproductid"
    @@ "categoryId" :> "categoryid" @@ "segmentId" :> "segmentid"
    @@ "partTerminologyId" :> "partterminologyid"
    @@ "partTerminologyName" :> "partterminologyname"
    @@ "additionalFields" :> "additionalfields"

\* field.lower()
lower(field) == IF field \in DOMAIN LowerCase THEN LowerCase[field] ELSE field

\* the left side of one assignment of the UpdateExpression: f"#{field}" when
\* hash, the bare name otherwise
Target(hash, name) == [hash |-> hash, name |-> name]

\* one "<target> = :<placeholder>" of the UpdateExpression
Assignment(target, placeholder) == [target |-> target, placeholder |-> placeholder]

\* the update request before the loop: "SET updatedAt = :updated_at"; the
\* keys of ExpressionAttributeNames stand for "#<key>", those of
\* ExpressionAttributeValues for ":<key>"
FirstParams(updated_at) ==
    [update_expression |-> <<Assignment(Target(FALSE, "updatedAt"), "updated_at")>>,
     expression_values |-> ("updated_at" :> updated_at),
     expression_names |-> EmptyItem]

RECURSIVE BuildExpression(_, _, _)
\* for field, value in validated_data.items(), from item i on
BuildExpression(items, i, acc) ==
    IF i > Len(items) THEN acc
    ELSE LET field == items[i].k
             value == items[i].v
             aliased == lower(field) \in reserved_keywords
         IN  BuildExpression(items, i + 1,
                 [update_expression |->
                      Append(acc.update_expression,
                             Assignment(Target(aliased, field), field)),
                  expression_values |-> Merge(acc.expression_values, field :> value),
                  expression_names |->
                      IF aliased THEN Merge(acc.expression_names, field :> VStr(field))
                      ELSE acc.expression_names])

\* update_params: ExpressionAttributeNames is passed only when not empty
update_params(part_uuid, sk, updated_at, validated_data) ==
    LET built == BuildExpression(ItemsFrom(validated_data, 1), 1, FirstParams(updated_at))
    IN  [Key |-> ("PK" :> VStr(part_uuid) @@ "SK" :> sk),
         UpdateExpression |-> built.update_expression,
         ExpressionAttributeValues |-> built.expression_values,
         hasNames |-> built.expression_names # EmptyItem,
         ExpressionAttributeNames |-> built.expression_names]

\* the attribute an assignment of the request names, as the storage
\* resolves it
AttributeOf(params, a) ==
    IF a.target.hash /\ params.hasNames
          /\ a.target.name \in DOMAIN params.ExpressionAttributeNames
    THEN params.ExpressionAttributeNames[a.target.name].s
    ELSE a.target.name

\* the attributes the request sets, with their values
SetsOf(params) ==
    LET expr == params.UpdateExpression
    IN  [n \in {AttributeOf(params, expr[k]) : k \in 1..Len(expr)} |->
            LET k == CHOOSE j \in 1..Len(expr) :
                        /\ AttributeOf(params, expr[j]) = n
                        /\ \A m \in 1..Len(expr) :
                              AttributeOf(params, expr[m]) = n => m <= j
            IN  params.ExpressionAttributeValues[expr[k].placeholder]]

\* the attributes update_part's UpdateExpression sets
UpdateSets(updated_at, validated_data) ==
    SetsOf(update_params("", VNull, updated_at, validated_data))

update_part(ev, e, tbl, clk, iss) ==
    LET part_uuid == PathUuid(ev)
        parsed == ParseBody(ev)
        part_data == parsed.part
        existing_part == get_part_by_uuid(tbl, part_uuid)
        validated_data == validate_part_data(part_data.data, TRUE)
        sets == UpdateSets(get_current_timestamp(clk), validated_data.data)
        tbl2 == update_item(tbl, VStr(part_uuid), existing_part.item["SK"], sets)
        updated_part == get_part_by_uuid(tbl2, part_uuid)
        same(resp) == Result("update_part", resp, tbl, clk, iss)
    IN  IF part_uuid = ""
        THEN same(Response(400, ErrorBody("Missing UUID in path parameters")))
        ELSE IF parsed.exc = "JSONDecodeError"
        THEN same(Response(400, ErrorBody("Invalid JSON in request body")))
        ELSE IF parsed.exc # "" THEN same(InternalError)
        ELSE IF Falsy(part_data)
        THEN same(Response(400, ErrorBody("Missing 'part' in request body")))
        ELSE IF get_table_name(e) = "JSONDecodeError"
        THEN same(Response(400, ErrorBody("Invalid JSON in request body")))
        ELSE IF get_table_name(e) # "" \/ e.failAt = 1 THEN same(InternalError)
        ELSE IF ~existing_part.found
        THEN same(Response(404, ErrorBody("Part not found or already deleted")))
        \* a part that is a JSON string has no items(): AttributeError
        ELSE IF part_data.kind # "obj" THEN same(InternalError)
        ELSE IF ~validated_data.ok
        THEN same(Response(400, ErrorBody(validated_data.error)))
        ELSE IF e.failAt = 2 \/ \E a \in DOMAIN sets : ~Serializable(sets[a])
        THEN Result("update_part", InternalError, tbl, clk + 1, iss)
        ELSE IF e.failAt = 3 THEN Result("update_part", InternalError, tbl2, clk + 1, iss)
        ELSE Result("update_part", Response(200, Body("", "Part updated successfully", "",
                                       IF updated_part.found THEN "object" ELSE "null",
                                       JsonItem(updated_part.item))),
                    tbl2, clk + 1, iss)

\* mutant: the record is removed from the table
delete_part_HardDelete(ev, e, tbl, clk, iss) ==
    LET part_uuid == PathUuid(ev)
        existing_part == get_part_by_uuid(tbl, part_uuid)
        same(resp) == Result("delete_part", resp, tbl, clk, iss)
    IN  IF part_uuid = ""
        THEN same(Response(400, ErrorBody("Missing UUID in path parameters")))
        ELSE IF get_table_name(e) # "" \/ e.failAt = 1 THEN same(InternalError)
        ELSE IF ~existing_part.found
        THEN same(Response(404, ErrorBody("Part not found or already deleted")))
        ELSE IF e.failAt = 2 THEN Result("delete_part", InternalError, tbl, clk + 1, iss)
        ELSE Result("delete_part", Response(200, Body("", "Part deleted successfully", "",
                                       "absent", EmptyItem)),
                    tbl \ {existing_part.item}, clk + 1, iss)

delete_part(ev, e, tbl, clk, iss) ==
    LET part_uuid == PathUuid(ev)
        existing_part == get_part_by_uuid(tbl, part_uuid)
        sets == "deletedAt" :> get_current_timestamp(clk)
        same(resp) == Result("delete_part", resp, tbl, clk, iss)
    IN  IF part_uuid = ""
        THEN same(Response(400, ErrorBody("Missing UUID in path parameters")))
        ELSE IF get_table_name(e) # "" \/ e.failAt = 1 THEN same(InternalError)
        ELSE IF ~existing_part.found
        THEN same(Response(404, ErrorBody("Part not found or already deleted")))
        ELSE IF e.failAt = 2 THEN Result("delete_part", InternalError, tbl, clk + 1, iss)
        ELSE Result("delete_part", Response(200, Body("", "Part deleted successfully", "",
                                       "absent", EmptyItem)),
                    update_item(tbl, VStr(part_uuid), existing_part.item["SK"], sets),
                    clk + 1, iss)

-----------------------------------------------------------------------------
(* Dispatcher *)

\* event.get("httpMethod") or event.get("requestContext", {}).get("http",
\* {}).get("method"): the exception raised, or "" with the method ("" for
\* a missing or empty one)
HttpMethod(ev) ==
    IF ev.httpMethod \notin {Absent, ""} THEN [exc |-> "", method |-> ev.httpMethod]
    ELSE CASE ev.requestContext.kind = "null" -> [exc |-> "AttributeError", method |-> ""]
           [] ev.requestContext.kind = "method" -> [exc |-> "", method |-> ev.requestContext.method]
           [] OTHER -> [exc |-> "", method |-> ""]

\* the CRUD operation lambda_handler runs on the event, "" for none
Route(ev) ==
    IF HttpMethod(ev).exc = "" /\ HttpMethod(ev).method \in {"GET", "POST", "PUT", "DELETE"}
    THEN HttpMethod(ev).method
    ELSE ""

\* mutant: any other method value falls through to Get
lambda_handler_DefaultGet(ev, e, tbl, clk, iss) ==
    LET http_method == HttpMethod(ev)
        same(resp) == Result("", resp, tbl, clk, iss)
    IN  IF http_method.exc # "" THEN same(InternalError)
        ELSE IF http_method.method = ""
        THEN same(Response(400, ErrorBody("HTTP method not found in event")))
        ELSE CASE http_method.method = "GET" -> get_part(ev, e, tbl, clk, iss)
               [] http_method.method = "POST" -> create_part(ev, e, tbl, clk, iss)
               [] http_method.method = "PUT" -> update_part(ev, e, tbl, clk, iss)
               [] http_method.method = "DELETE" -> delete_part(ev, e, tbl, clk, iss)
               [] OTHER -> get_part(ev, e, tbl, clk, iss)

lambda_handler(ev, e, tbl, clk, iss) ==
    LET http_method == HttpMethod(ev)
        same(resp) == Result("", resp, tbl, clk, iss)
    IN  IF http_method.exc # "" THEN same(InternalError)
        ELSE IF http_method.method = ""
        THEN same(Response(400, ErrorBody("HTTP method not found in event")))
        ELSE CASE http_method.method = "GET" -> get_part(ev, e, tbl, clk, iss)
               [] http_method.method = "POST" -> create_part(ev, e, tbl, clk, iss)
               [] http_method.method = "PUT" -> update_part(ev, e, tbl, clk, iss)
               [] http_method.method = "DELETE" -> delete_part(ev, e, tbl, clk, iss)
               [] OTHER -> same(Response(405, ErrorBody(
                               "Method " \o http_method.method \o " not allowed")))

-----------------------------------------------------------------------------
(* Inbound events and collaborator conditions the model draws from *)

NoPart == [kind |-> "absent", data |-> <<>>]
PartObj(data) == [kind |-> "obj", data |-> data]

NoBody == [kind |-> "absent", part |-> NoPart]
JsonBody(part) == [kind |-> "obj", part |-> part]

NoPath == [kind |-> "absent", uuid |-> ""]
Path(u) == [kind |-> "uuid", uuid |-> u]

NoContext == [kind |-> "absent", method |-> ""]
NoInfo == [kind |-> "absent", fieldName |-> Absent, parentTypeName |-> Absent]
NoArguments == [kind |-> "absent", uuid |-> Absent, id |-> Absent,
                part |-> NoPart, input |-> NoPart]

\* a gateway v1 event {httpMethod, pathParameters?, body?}
GatewayEvent(method, path, body) ==
    [httpMethod |-> method, requestContext |-> NoContext, pathParameters |-> path,
     body |-> body, info |-> NoInfo, arguments |-> NoArguments]

\* a gateway v2 event {requestContext: {http: {method}}, ...}
GatewayV2Event(method, path, body) ==
    [GatewayEvent(Absent, path, body) EXCEPT
        !.requestContext = [kind |-> "method", method |-> method]]

\* a managed-API event {info: {...}, arguments: {...}}
ManagedEvent(info, arguments) ==
    [GatewayEvent(Absent, NoPath, NoBody) EXCEPT !.info = info, !.arguments = arguments]

BasePart(acc) ==
    <<KV("accountId", VStr(acc)), KV("category", VStr("c1")),
      KV("segment", VStr("s1")), KV("partTerminologyName", VStr("p1"))>>

\* a complete payload with a numeric string and an additionalFields list
\* whose element has an empty fieldName
CodedPart ==
    BasePart("a2") \o <<KV("categoryId", VStr("5")),
                         KV("additionalFields", VList(<<Elem("", "red", "int")>>))>>

\* part payloads for Create: complete ones (one carrying a caller-chosen
\* PK, one a float, two an additionalFields list) and one without three of
\* the required fields
Parts ==
    { BasePart("a1") \o <<KV("PK", VStr("u2"))>>,
      BasePart("a1") \o <<KV("additionalFields", VList(<<Elem("color", Absent, "none")>>))>>,
      CodedPart,
      BasePart("a1") \o <<KV("categoryId", VFlt(55))>>,
      <<KV("accountId", VStr("a1"))>> }

Bodies ==
    { NoBody,
      [kind |-> "null", part |-> NoPart],
      [kind |-> "badjson", part |-> NoPart],
      [kind |-> "nonobj", part |-> NoPart],
      JsonBody(NoPart),
      JsonBody([kind |-> "empty", data |-> <<>>]),
      JsonBody([kind |-> "str", data |-> <<>>]) }
    \cup {JsonBody(PartObj(p)) : p \in Parts}

\* the uuids a caller may name: those the service can have issued, and one
\* it never issues
CallerUuids == {UuidPool[i] : i \in 1..MaxParts} \cup {"zz"}

Paths ==
    { NoPath, [kind |-> "null", uuid |-> ""], [kind |-> "empty", uuid |-> ""], Path("") }
    \cup {Path(u) : u \in CallerUuids}

\* Update payloads: a valid one that names accountId and createdAt, and one
\* with a number that cannot be parsed
PutBodies ==
    { JsonBody(PartObj(<<KV("accountId", VStr("a2")), KV("createdAt", VStr("x"))>>)),
      JsonBody(PartObj(<<KV("categoryId", VStr("abc")), KV("category", VStr("c2"))>>)) }

GetInfo == [kind |-> "obj", fieldName |-> "getPart", parentTypeName |-> "Query"]
ArchiveInfo == [kind |-> "obj", fieldName |-> "archivePart", parentTypeName |-> "Mutation"]
UuidArguments(u) == [NoArguments EXCEPT !.kind = "obj", !.uuid = u]

\* the request bodies that carry no usable part
PartlessBodies == Bodies \ {JsonBody(PartObj(p)) : p \in Parts}

Events ==
    {GatewayEvent("GET", p, NoBody) : p \in Paths \ {Path("")}}
    \cup {GatewayEvent("DELETE", p, NoBody) : p \in {NoPath} \cup {Path(u) : u \in CallerUuids}}
    \cup {GatewayEvent("POST", NoPath, b) : b \in Bodies}
    \cup {GatewayEvent("PUT", NoPath, JsonBody(PartObj(<<KV("category", VStr("c2"))>>)))}
    \cup {GatewayEvent("PUT", Path(u), b) : u \in CallerUuids, b \in PutBodies}
    \cup {GatewayEvent("PUT", Path("u1"), b) : b \in PartlessBodies}
    \cup {GatewayEvent(m, Path("u1"), NoBody) : m \in {"PATCH", "get", "", Absent}}
    \cup {GatewayV2Event(m, Path("u1"), NoBody) : m \in {"GET", "DELETE", "PATCH", ""}}
    \cup {[GatewayV2Event("GET", Path("u1"), NoBody) EXCEPT !.httpMethod = m] :
             m \in {"", "DELETE"}}
    \cup {[GatewayEvent(Absent, Path("u1"), NoBody) EXCEPT !.requestContext.kind = k] :
             k \in {"null", "nohttp", "nomethod"}}
    \cup {ManagedEvent(i, UuidArguments("u1")) : i \in {GetInfo, ArchiveInfo}}

OkEnv == [secretName |-> FALSE, fallback |-> TRUE, secret |-> "TableName", failAt |-> 0]

\* Secrets Manager and environment conditions other than the healthy one
SecretEnvs ==
    { [OkEnv EXCEPT !.fallback = FALSE],
      [OkEnv EXCEPT !.secretName = TRUE],
      [OkEnv EXCEPT !.secretName = TRUE, !.secret = "ClientError"],
      [OkEnv EXCEPT !.secretName = TRUE, !.secret = "ClientError", !.fallback = FALSE],
      [OkEnv EXCEPT !.secretName = TRUE, !.secret = "NoTableName"],
      [OkEnv EXCEPT !.secretName = TRUE, !.secret = "NoTableName", !.fallback = FALSE],
      [OkEnv EXCEPT !.secretName = TRUE, !.secret = "NotObject"],
      [OkEnv EXCEPT !.secretName = TRUE, !.secret = "NotJson"] }

StorageFault(k) == [OkEnv EXCEPT !.failAt = k]

\* one well-formed request per method, tried under faulty collaborators
CoreGet == GatewayEvent("GET", Path("u1"), NoBody)
CoreDelete == GatewayEvent("DELETE", Path("u1"), NoBody)
CorePost == GatewayEvent("POST", NoPath, JsonBody(PartObj(CodedPart)))
CorePut == GatewayEvent("PUT", Path("u1"), JsonBody(PartObj(<<KV("category", VStr("c2"))>>)))

Invocations ==
    {<<ev, OkEnv>> : ev \in Events}
    \cup ({CoreGet} \X SecretEnvs)
    \cup ({CorePost} \X {[OkEnv EXCEPT !.fallback = FALSE],
                          [OkEnv EXCEPT !.secretName = TRUE, !.secret = "NotObject"]})
    \cup ({CorePost, CorePut, CoreDelete}
             \X {[OkEnv EXCEPT !.secretName = TRUE, !.secret = "NotJson"]})
    \cup ({CoreGet, CorePost, CorePut, CoreDelete} \X {StorageFault(1)})
    \cup ({CorePut, CoreDelete} \X {StorageFault(2)})
    \cup {<<CorePut, StorageFault(3)>>}

-----------------------------------------------------------------------------
(* Protocol adapters for managed-API (AppSync) events *)

\* mutant: an info object with a fieldName is enough
is_appsync_event_FieldNameOnly(ev) ==
    ev.info.kind = "obj" /\ ev.info.fieldName # Absent

\* an event is managed-API style when it carries an info object with both
\* fieldName and parentTypeName
is_appsync_event(ev) ==
    /\ ev.info.kind = "obj"
    /\ ev.info.fieldName # Absent
    /\ ev.info.parentTypeName # Absent

\* mutant: updatePart mapped to POST
operation_map_UpdateAsPost ==
    "getPart" :> "GET" @@ "createPart" :> "POST" @@ "updatePart" :> "POST"
    @@ "deletePart" :> "DELETE"

operation_map ==
    "getPart" :> "GET" @@ "createPart" :> "POST" @@ "updatePart" :> "PUT"
    @@ "deletePart" :> "DELETE"

\* a or b, for two optional string arguments
FirstGiven(a, b) == IF a \notin {Absent, ""} THEN a ELSE IF b \notin {Absent, ""} THEN b ELSE ""

\* a or b, for two optional part arguments
FirstPart(a, b) == IF ~Falsy(a) THEN a ELSE b

\* the managed-API request mapper: the exception it raises, or "" with the
\* method and the internal request
parse_appsync_event(ev) ==
    LET field_name == ev.info.fieldName
        arguments == ev.arguments
        part_uuid == FirstGiven(arguments.uuid, arguments.id)
        part_data == FirstPart(arguments.part, arguments.input)
    IN  IF field_name \notin DOMAIN operation_map
        THEN [exc |-> "ValueError",
              message |-> "Unsupported AppSync operation: " \o field_name,
              method |-> "", request |-> ev]
        ELSE [exc |-> "", message |-> "", method |-> operation_map[field_name],
              request |->
                [httpMethod |-> operation_map[field_name],
                 requestContext |-> [kind |-> "appsync", method |-> ""],
                 pathParameters |-> IF part_uuid = "" THEN NoPath ELSE Path(part_uuid),
                 body |-> IF Falsy(part_data) THEN NoBody ELSE JsonBody(part_data),
                 info |-> ev.info, arguments |-> ev.arguments]]

Infos ==
    {NoInfo}
    \cup {[kind |-> "obj", fieldName |-> f, parentTypeName |-> t] :
             f \in {Absent, "getPart", "createPart", "updatePart", "deletePart", "archivePart"},
             t \in {Absent, "Query"}}

Arguments ==
    {NoArguments}
    \cup {[kind |-> "obj", uuid |-> u, id |-> i, part |-> p, input |-> q] :
             u \in {Absent, "u1"}, i \in {Absent, "u2"},
             p \in {NoPart, PartObj(BasePart("a1"))},
             q \in {NoPart, PartObj(<<KV("category", VStr("c2"))>>)}}

\* the events handed to the adapter functions
AdapterEvents ==
    {ManagedEvent(i, a) : i \in Infos, a \in Arguments}
    \cup {GatewayEvent("GET", Path("u1"), NoBody), GatewayEvent(Absent, NoPath, NoBody)}
    \cup {[ManagedEvent(GetInfo, a) EXCEPT !.httpMethod = "GET"] : a \in Arguments}

\* an internal response as the formatter is handed it: parses tells whether
\* its body string is valid JSON
InternalResponse(resp, parses) ==
    [statusCode |-> resp.statusCode, parses |-> parses, body |-> resp.body]

\* the outbound result of the managed-API path.  shape "part": the part
\* object itself; "flat": an object with the listed members; "envelope":
\* {error: {message, statusCode}}
Outbound(shape, members, statusCode, body) ==
    [shape |-> shape, members |-> members, statusCode |-> statusCode,
     message |-> IF shape = "envelope" THEN body.error
                 ELSE IF "message" \in members THEN body.message ELSE "",
     uuid |-> IF "uuid" \in members THEN body.uuid ELSE "",
     success |-> "success" \in members,
     partKind |-> IF shape = "part" \/ "part" \in members THEN body.partKind ELSE "absent",
     part |-> IF shape = "part" \/ "part" \in members THEN body.part ELSE EmptyItem]

Envelope(message, statusCode) ==
    Outbound("envelope", {}, statusCode, ErrorBody(message))

\* mutant: DELETE answered with the message alone
format_appsync_response_DeleteWithoutSuccess(resp, operation) ==
    IF ~resp.parses THEN Envelope("Invalid response format", 500)
    ELSE IF resp.statusCode < 200 \/ resp.statusCode >= 300
    THEN Envelope(resp.body.error, resp.statusCode)
    ELSE CASE operation = "GET" -> Outbound("part", {}, 0, resp.body)
           [] operation = "PUT" -> Outbound("flat", {"message", "part"}, 0, resp.body)
           [] operation = "POST" -> Outbound("flat", {"uuid", "message", "part"}, 0, resp.body)
           [] operation = "DELETE" -> Outbound("flat", {"message"}, 0, resp.body)
           [] OTHER -> Outbound("flat", {}, 0, resp.body)

\* mutant: only server errors are answered with the envelope
format_appsync_response_ServerErrorsOnly(resp, operation) ==
    IF ~resp.parses THEN Envelope("Invalid response format", 500)
    ELSE IF resp.statusCode >= 500
    THEN Envelope(resp.body.error, resp.statusCode)
    ELSE CASE operation = "GET" -> Outbound("part", {}, 0, resp.body)
           [] operation = "PUT" -> Outbound("flat", {"message", "part"}, 0, resp.body)
           [] operation = "POST" -> Outbound("flat", {"uuid", "message", "part"}, 0, resp.body)
           [] operation = "DELETE" -> Outbound("flat", {"message", "success"}, 0, resp.body)
           [] OTHER -> Outbound("flat", {}, 0, resp.body)

\* the internal-response-to-managed-API mapper: a body that does not parse
\* and every non-2xx status give the error envelope; a 2xx body is
\* unwrapped by operation
format_appsync_response(resp, operation) ==
    IF ~resp.parses THEN Envelope("Invalid response format", 500)
    ELSE IF resp.statusCode < 200 \/ resp.statusCode >= 300
    THEN Envelope(resp.body.error, resp.statusCode)
    ELSE CASE operation = "GET" -> Outbound("part", {}, 0, resp.body)
           [] operation = "PUT" -> Outbound("flat", {"message", "part"}, 0, resp.body)
           [] operation = "POST" -> Outbound("flat", {"uuid", "message", "part"}, 0, resp.body)
           [] operation = "DELETE" -> Outbound("flat", {"message", "success"}, 0, resp.body)
           [] OTHER -> Outbound("flat", {}, 0, resp.body)

NoProbe ==
    [call |-> "", detected |-> FALSE, exc |-> "", message |-> "", method |-> "",
     request |-> GatewayEvent(Absent, NoPath, NoBody),
     given |-> [statusCode |-> 0, parses |-> TRUE, body |-> ErrorBody("")],
     result |-> Outbound("", {}, 0, ErrorBody("")),
     data |-> <<>>, is_update |-> FALSE, validated |-> Valid(EmptyItem),
     again |-> Valid(EmptyItem),
     params |-> update_params("", VNull, VNull, EmptyItem)]

\* the members of a complete payload whose names are in S, in payload order
Members(S) == SelectSeq(BasePart("a1"), LAMBDA m : m.k \in S)

\* values tried on a numeric field
NumberInputs ==
    { VStr("5"), VStr("7"), VStr("5.5"), VStr("5.0"), VStr("abc"), VStr("a.b"),
      VInt(5), VFlt(55), VNull }

\* additionalFields lists: well-formed, with an element that is no object,
\* lacks a required member, or has it empty
AdditionalInputs ==
    { <<>>,
      <<Elem("color", "red", "none")>>,
      <<Elem("color", "red", "none"), Elem("size", "large", "int")>>,
      <<NonDictElem>>,
      <<Elem("color", "red", "none"), Elem("size", Absent, "none")>>,
      <<Elem(Absent, "red", "none")>>,
      <<Elem(Absent, Absent, "none")>>,
      <<Elem("", "red", "none")>>,
      <<Elem("color", "", "none")>> }

\* what a payload carries besides required fields
Extras ==
    { <<>>,
      <<KV("color", VStr("red"))>>,
      <<KV("PK", VStr("u2")), KV("createdAt", VStr("x"))>>,
      <<KV("customerId", VStr("k1"))>>,
      <<KV("customerId", VInt(5))>>,
      <<KV("additionalFields", VStr("red"))>> }
    \cup {<<KV(f, v)>> : f \in NumericFields, v \in NumberInputs}
    \cup {<<KV("additionalFields", VList(l))>> : l \in AdditionalInputs}

\* the payloads handed to validate_part_data
ValidatorInputs ==
    {Members(S) \o x : S \in SUBSET Keys(BasePart("a1")), x \in Extras}

-----------------------------------------------------------------------------
(* The state machine: one step is one invocation of lambda_handler *)

NoResponse == Response(0, ErrorBody(""))

Init_event == GatewayEvent(Absent, NoPath, NoBody)

\* the concurrent invocations
Procs == 1..MaxProcs

\* an invocation that has not started: pc is its position, ev its event,
\* existing the record its fetch returned, sets the attributes its write
\* sets, order the rank of its write among all writes, response its answer
Idle ==
    [pc |-> "idle", ev |-> Init_event, existing |-> NoItem, sets |-> EmptyItem,
     order |-> 0, response |-> NoResponse]

Init ==
    /\ table = {}
    /\ clock = 0
    /\ issued = 0
    /\ event = Init_event
    /\ env = OkEnv
    /\ op = ""
    /\ response = NoResponse
    /\ before = {}
    /\ created = EmptyItem
    /\ deleted = {}
    /\ touched = {}
    /\ probe = NoProbe
    /\ inflight = [p \in Procs |-> Idle]

\* lambda_handler(ev, context) under collaborator condition e
Invoke(ev, e) ==
    \E r \in {lambda_handler(ev, e, table, clock, issued)} :
        /\ r.clock <= MaxTime
        /\ r.issued <= MaxParts
        /\ event' = ev
        /\ env' = e
        /\ op' = r.ran
        /\ response' = r.response
        /\ table' = r.table
        /\ clock' = r.clock
        /\ issued' = r.issued
        /\ before' = table
        /\ created' = IF r.ran = "create_part" /\ r.response.statusCode = 201
                       THEN Put(created, r.response.body.uuid, r.response.body.part)
                       ELSE created
        /\ deleted' = IF op = "delete_part" /\ response.statusCode = 200
                       THEN deleted \cup {PathUuid(event)}
                       ELSE deleted
        /\ touched' = IF r.ran \in {"update_part", "delete_part"} /\ r.table # table
                       THEN touched \cup {PathUuid(ev)}
                       ELSE touched
        /\ UNCHANGED <<probe, inflight>>

\* the invocations that lambda_handler routes to operation r
InvocationsOf(r) == {i \in Invocations : Route(i[1]) = r}

GetInvocations == InvocationsOf("GET")
CreateInvocations == InvocationsOf("POST")
UpdateInvocations == InvocationsOf("PUT")
DeleteInvocations == InvocationsOf("DELETE")
RejectInvocations == InvocationsOf("")

Get == \E i \in GetInvocations : Invoke(i[1], i[2])

Create == \E i \in CreateInvocations : Invoke(i[1], i[2])

Update == \E i \in UpdateInvocations : Invoke(i[1], i[2])

Delete == \E i \in DeleteInvocations : Invoke(i[1], i[2])

\* an event that reaches no CRUD operation: 400, 405 or the outer 500
Reject == \E i \in RejectInvocations : Invoke(i[1], i[2])

Next == Get \/ Create \/ Update \/ Delete \/ Reject

Spec == Init /\ [][Next]_vars

\* a direct call of is_appsync_event
Detect ==
    \E ev \in AdapterEvents :
        /\ event' = ev
        /\ probe' = [NoProbe EXCEPT !.call = "is_appsync_event",
                                      !.detected = is_appsync_event(ev)]
        /\ UNCHANGED <<table, clock, issued, env, op, response, before, created,
                       deleted, touched, inflight>>

\* a direct call of parse_appsync_event on a managed-API event
Parse ==
    \E ev \in AdapterEvents :
        /\ is_appsync_event(ev)
        /\ event' = ev
        /\ \E r \in {parse_appsync_event(ev)} :
              probe' = [NoProbe EXCEPT !.call = "parse_appsync_event", !.detected = TRUE,
                                            !.exc = r.exc, !.message = r.message,
                                            !.method = r.method, !.request = r.request]
        /\ UNCHANGED <<table, clock, issued, env, op, response, before, created,
                       deleted, touched, inflight>>

NextAdapter == Detect \/ Parse

\* the protocol-adapter functions called on their own
SpecAdapter == Init /\ [][NextAdapter]_vars

\* a direct call of format_appsync_response on the response of the last
\* invocation (or on one whose body string is not JSON), for the operation
\* the invocation's method names
Format ==
    /\ probe = NoProbe
    /\ event # Init_event
    /\ HttpMethod(event).exc = ""
    /\ \E parses \in BOOLEAN :
          \E given \in {InternalResponse(response, parses)} :
              probe' = [NoProbe EXCEPT
                           !.call = "format_appsync_response",
                           !.method = HttpMethod(event).method,
                           !.given = given,
                           !.result = format_appsync_response(given, HttpMethod(event).method)]
    /\ UNCHANGED <<table, clock, issued, event, env, op, response, before, created,
                   deleted, touched, inflight>>

\* a payload and a mode are chosen for a call of validate_part_data
InitValidate ==
    /\ table = {}
    /\ clock = 0
    /\ issued = 0
    /\ event = Init_event
    /\ env = OkEnv
    /\ op = ""
    /\ response = NoResponse
    /\ before = {}
    /\ created = EmptyItem
    /\ deleted = {}
    /\ touched = {}
    /\ inflight = [p \in Procs |-> Idle]
    /\ probe \in {[NoProbe EXCEPT !.call = "input", !.data = data, !.is_update = is_update] :
                      data \in ValidatorInputs, is_update \in BOOLEAN}

\* the call of validate_part_data on the chosen payload
Validate ==
    /\ probe.call = "input"
    /\ probe' = [probe EXCEPT !.call = "validate_part_data",
                               !.validated = validate_part_data(probe.data, probe.is_update)]
    /\ UNCHANGED <<table, clock, issued, event, env, op, response, before, created,
                   deleted, touched, inflight>>

\* the validated output of the call handed to validate_part_data again, in
\* Update mode
Revalidate ==
    /\ probe.call = "validate_part_data"
    /\ probe.validated.ok
    /\ probe' = [probe EXCEPT !.call = "validate_part_data again",
                               !.again = validate_part_data(
                                             ItemsFrom(probe.validated.data, 1), TRUE)]
    /\ UNCHANGED <<table, clock, issued, event, env, op, response, before, created,
                   deleted, touched, inflight>>

\* the update request update_part builds from the validated payload of an
\* Update, for the record u1 of account a1
Express ==
    /\ probe.call = "validate_part_data"
    /\ probe.is_update
    /\ probe.validated.ok
    /\ probe' = [probe EXCEPT !.call = "update_params",
                               !.params = update_params("u1", VStr("a1"),
                                              get_current_timestamp(clock),
                                              probe.validated.data)]
    /\ UNCHANGED <<table, clock, issued, event, env, op, response, before, created,
                   deleted, touched, inflight>>

NextValidate == Validate \/ Revalidate \/ Express

\* the validator called on its own
SpecValidate == InitValidate /\ [][NextValidate]_vars

NextFormat ==
    \/ probe = NoProbe /\ Next
    \/ Format

\* invocations of lambda_handler, the last response handed to the formatter
SpecFormat == Init /\ [][NextFormat]_vars

-----------------------------------------------------------------------------
(* Concurrent invocations: update_part and delete_part interleaved at their *)
(* storage calls.  Nothing but the table is shared between invocations.     *)

UpdateA ==
    GatewayEvent("PUT", Path("u1"),
                 JsonBody(PartObj(<<KV("category", VStr("c2")),
                                    KV("customerId", VStr("k1"))>>)))

UpdateB ==
    GatewayEvent("PUT", Path("u1"),
                 JsonBody(PartObj(<<KV("category", VStr("c3")),
                                    KV("locationId", VStr("l1"))>>)))

\* the requests that run concurrently, all for the first part created
RaceRequests == {UpdateA, UpdateB, CoreDelete}

\* the part the requests are about is created
Seed == issued = 0 /\ Invoke(CorePost, OkEnv)

\* existing_part = get_part_by_uuid(table, part_uuid); 404 when there is none
FetchBy(p, ev) ==
    /\ inflight[p].pc = "idle"
    /\ \E existing_part \in {get_part_by_uuid(table, PathUuid(ev))} :
          inflight' = [inflight EXCEPT ![p] =
              IF existing_part.found
              THEN [Idle EXCEPT !.pc = "stamp", !.ev = ev, !.existing = existing_part]
              ELSE [Idle EXCEPT !.pc = "done", !.ev = ev,
                                !.response = Response(404,
                                    ErrorBody("Part not found or already deleted"))]]
    /\ UNCHANGED <<table, clock, issued, event, env, op, response, before, created,
                   deleted, touched, probe>>

Fetch == \E p \in Procs, ev \in RaceRequests : FetchBy(p, ev)

\* update_part validates the payload and builds its update with the current
\* time; delete_part builds "SET deletedAt = :deleted_at" with the current time
StampBy(p) ==
    LET ev == inflight[p].ev
        validated_data == validate_part_data(ParseBody(ev).part.data, TRUE)
    IN  /\ inflight[p].pc = "stamp"
        /\ clock < MaxTime
        /\ IF Route(ev) = "PUT" /\ ~validated_data.ok
           THEN /\ inflight' = [inflight EXCEPT ![p].pc = "done",
                                    ![p].response = Response(400,
                                        ErrorBody(validated_data.error))]
                /\ UNCHANGED clock
           ELSE /\ inflight' = [inflight EXCEPT ![p].pc = "write",
                                    ![p].sets =
                                        IF Route(ev) = "PUT"
                                        THEN UpdateSets(get_current_timestamp(clock),
                                                        validated_data.data)
                                        ELSE "deletedAt" :> get_current_timestamp(clock)]
                /\ clock' = clock + 1
        /\ UNCHANGED <<table, issued, event, env, op, response, before, created,
                       deleted, touched, probe>>

Stamp == \E p \in Procs : StampBy(p)

\* table.update_item(Key={PK: part_uuid, SK: existing_part["SK"]}, ...);
\* delete_part then returns 200
WriteBy(p) ==
    LET ev == inflight[p].ev
    IN  /\ inflight[p].pc = "write"
        /\ table' = update_item(table, VStr(PathUuid(ev)),
                                inflight[p].existing.item["SK"], inflight[p].sets)
        /\ before' = table
        /\ inflight' = [inflight EXCEPT
               ![p].pc = IF Route(ev) = "PUT" THEN "refetch" ELSE "done",
               ![p].order = 1 + Cardinality({q \in Procs : inflight[q].order > 0}),
               ![p].response =
                   IF Route(ev) = "PUT" THEN NoResponse
                   ELSE Response(200, Body("", "Part deleted successfully", "",
                                           "absent", EmptyItem))]
        /\ UNCHANGED <<clock, issued, event, env, op, response, created, deleted,
                       touched, probe>>

Write == \E p \in Procs : WriteBy(p)

\* updated_part = get_part_by_uuid(table, part_uuid); update_part returns 200
RefetchBy(p) ==
    /\ inflight[p].pc = "refetch"
    /\ \E updated_part \in {get_part_by_uuid(table, PathUuid(inflight[p].ev))} :
          inflight' = [inflight EXCEPT ![p].pc = "done",
              ![p].response =
                  Response(200, Body("", "Part updated successfully", "",
                                     IF updated_part.found THEN "object" ELSE "null",
                                     JsonItem(updated_part.item)))]
    /\ UNCHANGED <<table, clock, issued, event, env, op, response, before, created,
                   deleted, touched, probe>>

Refetch == \E p \in Procs : RefetchBy(p)

NextRace == Seed \/ Fetch \/ Stamp \/ Write \/ Refetch

SpecRace == Init /\ [][NextRace]_vars

-----------------------------------------------------------------------------
(* Properties *)

\* the collaborators answered during the last invocation
Healthy == get_table_name(env) = "" /\ env.failAt = 0

\* the stored items of partition u
ItemsOf(tbl, u) == {i \in tbl : i["PK"] = VStr(u)}

\* an Update request whose body parses and carries a non-empty part
CarriesPart == ParseBody(event).exc = "" /\ ~Falsy(ParseBody(event).part)

\* C1 (as stated): once a Delete on an id has returned 200, every later
\* Get, Update and Delete on that id returns 404, and the record is still
\* in the table with deletedAt set.
C1_DeletedAlways404 ==
    /\ \A u \in deleted :
          \E i \in ItemsOf(table, u) : "deletedAt" \in DOMAIN i
    /\ (Healthy /\ op \in {"get_part", "update_part", "delete_part"}
           /\ PathUuid(event) \in deleted)
          => response.statusCode = 404

\* C1 (amended): once a Delete on an id has returned 200, no later Get,
\* Update or Delete on that id succeeds or changes the table; each returns
\* 404 when the collaborators answer and, for Update, the body parses and
\* carries a non-empty part (an Update without one returns 400 first); the
\* record is still in the table with deletedAt set.
C1_SoftDeletedInvisible ==
    /\ \A u \in deleted :
          \E i \in ItemsOf(table, u) : "deletedAt" \in DOMAIN i
    /\ (op \in {"get_part", "update_part", "delete_part"} /\ PathUuid(event) \in deleted)
          => /\ response.statusCode \in {400, 404, 500}
             /\ table = before
             /\ (Healthy /\ (op = "update_part" => CarriesPart))
                   => response.statusCode = 404

\* an Update with a part payload on a soft-deleted id was answered 404
C1_Witness ==
    /\ op = "update_part"
    /\ PathUuid(event) \in deleted
    /\ CarriesPart
    /\ response.statusCode = 404

\* C2: a successful Update leaves the Part's accountId and createdAt as
\* they were before the Update, whatever the payload, and sets updatedAt.
C2_UpdateKeepsAccountId ==
    (op = "update_part" /\ response.statusCode = 200)
      => \A old \in ItemsOf(before, PathUuid(event)) :
           \E new \in ItemsOf(table, PathUuid(event)) :
              /\ new["SK"] = old["SK"]
              /\ new["accountId"] = old["accountId"]
              /\ new["createdAt"] = old["createdAt"]
              /\ "updatedAt" \in DOMAIN new

\* C3: the id Create stores and returns is the one the server generated,
\* not a PK the payload carries; it differs from the id of every part
\* stored before; no two stored records share an id.
C3_FreshIds ==
    /\ \A i, j \in table : i["PK"] = j["PK"] => i = j
    /\ (op = "create_part" /\ response.statusCode = 201)
          => /\ response.body.uuid = uuid4(issued - 1)
             /\ ItemsOf(before, response.body.uuid) = {}
             /\ Cardinality(ItemsOf(table, response.body.uuid)) = 1
             /\ Cardinality(table) = Cardinality(before) + 1
             /\ response.body.part["PK"] = VStr(response.body.uuid)

\* Create succeeded a second time on the same payload, which carries a PK
C3_Witness ==
    /\ op = "create_part"
    /\ response.statusCode = 201
    /\ "PK" \in Keys(event.body.part.data)
    /\ Cardinality(table) = 2
    /\ \A i \in table : i["accountId"] = VStr("a1") /\ "categoryId" \notin DOMAIN i

\* a JSON value up to the spelling of numbers: 5 and 5.0 are one number
NumberValue(v) ==
    [t |-> IF v.t \in {"int", "float", "dec"} THEN "number" ELSE v.t,
     s |-> v.s, n |-> v.n,
     l |-> [k \in 1..Len(v.l) |->
              [v.l[k] EXCEPT !.ref = IF @ = "none" THEN "none" ELSE "number"]]]

JsonEqual(a, b) ==
    /\ DOMAIN a = DOMAIN b
    /\ \A k \in DOMAIN a : NumberValue(a[k]) = NumberValue(b[k])

\* C4: after a Create returned 201 with an id, a Get on that id (with the
\* collaborators answering) returns 200 with a part equal, as a JSON value,
\* to the part Create returned, keyed by that id and its accountId, as long
\* as no Update or Delete has written the record of that id.
C4_GetAfterCreate ==
    (op = "get_part" /\ Healthy /\ PathUuid(event) \in DOMAIN created
       /\ PathUuid(event) \notin touched)
      => /\ response.statusCode = 200
         /\ response.body.partKind = "object"
         /\ JsonEqual(response.body.part, created[PathUuid(event)])
         /\ response.body.part["PK"] = VStr(PathUuid(event))
         /\ response.body.part["SK"] = response.body.part["accountId"]
         /\ "createdAt" \in DOMAIN response.body.part

\* a Get returned a created, untouched part that holds a coerced number
C4_Witness ==
    /\ op = "get_part"
    /\ response.statusCode = 200
    /\ PathUuid(event) \in DOMAIN created
    /\ PathUuid(event) \notin touched
    /\ "categoryId" \in DOMAIN response.body.part

\* C5: a gateway event with a non-empty httpMethod is routed by it: GET
\* runs Get, POST Create, PUT Update, DELETE Delete; every other value is
\* answered 405 without running a CRUD operation or changing the table.
C5_RoutesByMethod ==
    (event.httpMethod \notin {Absent, ""})
      => CASE event.httpMethod = "GET" -> op = "get_part"
           [] event.httpMethod = "POST" -> op = "create_part"
           [] event.httpMethod = "PUT" -> op = "update_part"
           [] event.httpMethod = "DELETE" -> op = "delete_part"
           [] OTHER -> /\ op = ""
                       /\ response.statusCode = 405
                       /\ response.body.error = "Method " \o event.httpMethod \o " not allowed"
                       /\ table = before

\* a PATCH request was answered 405 while the table holds a part
C5_Witness ==
    /\ event.httpMethod = "PATCH"
    /\ response.statusCode = 405
    /\ table # {}

\* the method under the nested shape, "" when the event has none there
NestedMethod(ev) ==
    IF ev.requestContext.kind = "method" THEN ev.requestContext.method ELSE ""

\* C6: the method is the flat httpMethod, otherwise the nested
\* requestContext.http.method; when the event has it under neither shape
\* the handler returns 400 'HTTP method not found' and runs no CRUD operation.
C6_MethodFlatThenNested ==
    /\ (event.httpMethod \in {Absent, ""} /\ NestedMethod(event) = "GET")
          => op = "get_part"
    /\ (event.httpMethod \in {Absent, ""} /\ NestedMethod(event) = "DELETE")
          => op = "delete_part"
    /\ (event.httpMethod = "DELETE" /\ NestedMethod(event) = "GET")
          => op = "delete_part"
    /\ (event.httpMethod \in {Absent, ""} /\ NestedMethod(event) = "" /\ event # Init_event)
          => /\ op = ""
             /\ response.statusCode = 400
             /\ response.body.error = "HTTP method not found in event"
             /\ table = before

\* C7: whenever table-name resolution or a call on the table fails during
\* a CRUD operation, the handler returns 500 with the generic message.
C7_FailuresAre500 ==
    (op # "" /\ event \in {CoreGet, CorePost, CorePut, CoreDelete}
       /\ (get_table_name(env) # "" \/ env.failAt = 1))
      => /\ response.statusCode = 500
         /\ response.body.error = "Internal server error"

\* C10: a managed-API event with an unsupported field name is answered
\* with the envelope {error: {message, statusCode: 400}} whose message is
\* 'Unsupported AppSync operation ...', and no CRUD operation runs.
C10_UnsupportedOperationEnvelope ==
    (event.info.kind = "obj"
       /\ event.info.fieldName \notin {Absent, "getPart", "createPart", "updatePart", "deletePart"}
       /\ event.info.parentTypeName # Absent)
      => /\ op = ""
         /\ table = before
         /\ response.shape = "envelope"
         /\ response.statusCode = 400
         /\ response.body.error = "Unsupported AppSync operation: " \o event.info.fieldName

\* the event names both fieldName and parentTypeName in an info object
HasDescriptor(ev) ==
    ev.info.kind = "obj" /\ ev.info.fieldName # Absent /\ ev.info.parentTypeName # Absent

FormattedSuccess ==
    /\ probe.call = "format_appsync_response"
    /\ probe.given.parses
    /\ probe.given.statusCode \in 200..299

RequiredByCreate == <<"accountId", "category", "segment", "partTerminologyName">>

\* the message naming the fields of RequiredByCreate a payload lacks
MissingMessage(data) ==
    "Missing required fields: " \o Join(Missing(RequiredByCreate, Keys(data)), ", ")

\* C13: validate in Create mode fails with a ValidationError naming the
\* missing fields whenever one of accountId, category, segment,
\* partTerminologyName is absent; in Update mode it never fails because of
\* an absent field: every subset of well-typed schema fields validates.
C13_RequiredOnCreateOnly ==
    (probe.call = "validate_part_data")
      => /\ (~probe.is_update /\ \E k \in 1..4 : RequiredByCreate[k] \notin Keys(probe.data))
               => /\ ~probe.validated.ok
                  /\ probe.validated.error = MissingMessage(probe.data)
         /\ probe.is_update
               => /\ \A d \in ValidatorInputs : probe.validated.error # MissingMessage(d)
                  /\ (\A k \in 1..Len(probe.data) :
                          probe.data[k].k \in {"accountId", "category", "segment",
                                               "partTerminologyName", "customerId"}
                          /\ probe.data[k].v.t = "str")
                        => /\ probe.validated.ok
                           /\ DOMAIN probe.validated.data = Keys(probe.data)

\* Create-mode validation named the two fields a payload lacks, and the
\* payload carries nothing else
C13_Witness ==
    /\ probe.call = "validate_part_data"
    /\ ~probe.is_update
    /\ Keys(probe.data) = {"accountId", "segment"}
    /\ probe.validated.error = "Missing required fields: category, partTerminologyName"

\* the field schema of a part
SchemaFields ==
    {"accountId", "customerId", "locationId", "categoryProductId", "categoryId",
     "category", "segmentId", "segment", "partTerminologyId", "partTerminologyName",
     "additionalFields"}

\* the attributes a stored record may have: id, sort key, schema fields,
\* lifecycle timestamps
StoredKeys == {"PK", "SK", "createdAt", "updatedAt", "deletedAt"} \cup SchemaFields

\* a payload without its members that are not in the schema
WithoutUnknown(data) == SelectSeq(data, LAMBDA m : m.k \in SchemaFields)

\* C14: payload keys that are not in the field schema never cause an error,
\* never appear in the validator's output and are never persisted: every
\* stored record has only the id, the sort key, schema fields and lifecycle
\* timestamps, and its createdAt is the server's timestamp.
C14_UnknownKeysDropped ==
    /\ \A i \in table :
          /\ DOMAIN i \subseteq StoredKeys
          /\ "createdAt" \in DOMAIN i => i["createdAt"].s = "ts"
    /\ (op \in {"create_part", "update_part"} /\ ParseBody(event).exc = ""
           /\ ParseBody(event).part.kind = "obj")
          => LET data == ParseBody(event).part.data
                 out == validate_part_data(data, op = "update_part")
             IN  /\ DOMAIN out.data \subseteq SchemaFields
                 /\ out = validate_part_data(WithoutUnknown(data), op = "update_part")
                 /\ (response.statusCode \in {200, 201} /\ response.body.partKind = "object")
                       => DOMAIN response.body.part \subseteq StoredKeys

\* an Update whose payload carries createdAt succeeded on a record created
\* from a payload that carried PK
C14_Witness ==
    /\ op = "update_part"
    /\ response.statusCode = 200
    /\ "createdAt" \in Keys(event.body.part.data)
    /\ PathUuid(event) \in DOMAIN created
    /\ \E i \in ItemsOf(table, PathUuid(event)) :
          /\ i["SK"] = VStr("a1")
          /\ i["accountId"] = VStr("a2")
          /\ i["createdAt"].s = "ts"

\* the numeric field a payload carries as its last member, "" when it
\* carries none there
NumericMember(data) ==
    IF Len(data) > 0 /\ data[Len(data)].k \in {"categoryProductId", "categoryId",
                                                 "segmentId", "partTerminologyId"}
    THEN data[Len(data)].k
    ELSE ""

\* validation gets as far as the field loop
PassesRequired ==
    probe.is_update \/ \A k \in 1..4 : RequiredByCreate[k] \in Keys(probe.data)

\* C15: a numeric field given as a non-number is coerced: the string of an
\* integer yields that integer, a string with a decimal point the float,
\* a value that cannot be parsed fails with 'Field <name> must be a
\* number'; a value that is a number already passes through unchanged.
C15_NumericCoercion ==
    (probe.call = "validate_part_data" /\ NumericMember(probe.data) # "" /\ PassesRequired)
      => LET f == NumericMember(probe.data)
             v == probe.data[Len(probe.data)].v
             out == probe.validated
         IN  /\ (v = VStr("5")) => out.ok /\ out.data[f] = VInt(5)
             /\ (v = VStr("7")) => out.ok /\ out.data[f] = VInt(7)
             /\ (v = VStr("5.5")) => out.ok /\ out.data[f] = VFlt(55)
             /\ (v = VStr("5.0")) => out.ok /\ out.data[f] = VFlt(50)
             /\ (v \in {VStr("abc"), VStr("a.b"), VNull})
                   => ~out.ok /\ out.error = "Field " \o f \o " must be a number"
             /\ (v.t \in {"int", "float"}) => out.ok /\ out.data[f] = v

\* Create-mode validation turned segmentId "5.5" into the float 5.5
C15_Witness ==
    /\ probe.call = "validate_part_data"
    /\ ~probe.is_update
    /\ NumericMember(probe.data) = "segmentId"
    /\ probe.data[Len(probe.data)].v = VStr("5.5")
    /\ probe.validated.ok
    /\ probe.validated.data["segmentId"] = VFlt(55)

\* every element of a list is an object with non-empty fieldName and
\* codedValue
WellFormedElements(l) ==
    \A k \in 1..Len(l) :
        /\ l[k].isDict
        /\ l[k].fieldName \notin {Absent, ""}
        /\ l[k].codedValue \notin {Absent, ""}

\* C16: no Create or Update is accepted with a non-empty additionalFields
\* in which some element is not a map, lacks fieldName or codedValue, or
\* has one of them empty: such a request is answered 400, and every stored
\* part has non-empty fieldName and codedValue in every element.
C16_AdditionalFieldsWellFormed ==
    /\ \A i \in table :
          "additionalFields" \in DOMAIN i => WellFormedElements(i["additionalFields"].l)
    /\ (op = "create_part" /\ ParseBody(event).exc = "" /\ ParseBody(event).part.kind = "obj"
           /\ \E k \in 1..Len(event.body.part.data) :
                 /\ event.body.part.data[k].k = "additionalFields"
                 /\ event.body.part.data[k].v.t = "list"
                 /\ ~WellFormedElements(event.body.part.data[k].v.l))
          => response.statusCode = 400

\* the request carries no part payload: no body, a null body, or a JSON
\* body without a (non-empty) part
NoPartPayload(ev) ==
    \/ ev.body.kind \in {"absent", "null"}
    \/ ev.body.kind = "obj" /\ Falsy(ev.body.part)

\* the request's part is an object that validation in Create mode rejects
CreateValidationFails(ev) ==
    /\ ev.body.kind = "obj"
    /\ ev.body.part.kind = "obj"
    /\ ~validate_part_data(ev.body.part.data, FALSE).ok

\* C17: Create returns 400 whenever the request carries no part payload
\* (body absent, body null, or a JSON body without 'part') and whenever
\* validation in Create mode fails; no record is inserted and the table is
\* unchanged.
C17_CreateRejects400 ==
    (op = "create_part" /\ (NoPartPayload(event) \/ CreateValidationFails(event)))
      => /\ response.statusCode = 400
         /\ table = before

\* the live records of id u: those without deletedAt
LiveItems(tbl, u) == {i \in ItemsOf(tbl, u) : "deletedAt" \notin DOMAIN i}

\* the event names no path identifier: no pathParameters, null or empty
\* pathParameters, or an empty uuid
NoIdentifier(ev) == ev.pathParameters.kind # "uuid" \/ ev.pathParameters.uuid = ""

\* C18: Get returns 400 when the path identifier is missing, 404 when no
\* live record has that id, and otherwise 200 with the stored part (with
\* the collaborators answering); a never-created id always gives 404; Get
\* leaves the table as it was.
C18_GetOutcomes ==
    (op = "get_part")
      => /\ table = before
         /\ NoIdentifier(event)
               => /\ response.statusCode = 400
                  /\ response.body.error = "Missing UUID in path parameters"
         /\ (~NoIdentifier(event) /\ Healthy /\ LiveItems(table, PathUuid(event)) = {})
               => /\ response.statusCode = 404
                  /\ response.body.error = "Part not found"
         /\ (~NoIdentifier(event) /\ Healthy /\ LiveItems(table, PathUuid(event)) # {})
               => /\ response.statusCode = 200
                  /\ response.body.partKind = "object"
                  /\ \E i \in LiveItems(table, PathUuid(event)) :
                        JsonEqual(response.body.part, i)
         /\ (~NoIdentifier(event) /\ Healthy /\ PathUuid(event) \notin DOMAIN created)
               => response.statusCode = 404

\* a Get on a never-created id was answered 404 while the table holds a
\* live record
C18_Witness ==
    /\ op = "get_part"
    /\ PathUuid(event) = "zz"
    /\ response.statusCode = 404
    /\ \E i \in table : "deletedAt" \notin DOMAIN i

\* the request's part is an object
PartIsObject(ev) == ev.body.kind = "obj" /\ ev.body.part.kind = "obj"

\* C19: Update applies its checks in this order and stops at the first
\* that fails: missing id gives 400, missing part payload gives 400, no
\* live record for the id gives 404, validation failure in Update mode
\* gives 400; an invalid payload for a non-existent or soft-deleted id
\* yields 404; in every failing case the table is unchanged.
C19_UpdateCheckOrder ==
    (op = "update_part")
      => /\ NoIdentifier(event)
               => /\ response.statusCode = 400
                  /\ response.body.error = "Missing UUID in path parameters"
         /\ (~NoIdentifier(event) /\ NoPartPayload(event))
               => /\ response.statusCode = 400
                  /\ response.body.error = "Missing 'part' in request body"
         /\ (~NoIdentifier(event) /\ PartIsObject(event) /\ Healthy
               /\ LiveItems(before, PathUuid(event)) = {})
               => response.statusCode = 404
         /\ (~NoIdentifier(event) /\ PartIsObject(event) /\ Healthy
               /\ LiveItems(before, PathUuid(event)) # {}
               /\ ~validate_part_data(event.body.part.data, TRUE).ok)
               => /\ response.statusCode = 400
                  /\ response.body.error = validate_part_data(event.body.part.data, TRUE).error
         /\ response.statusCode \in {400, 404} => table = before

\* C20: a Delete on a live id (with the collaborators answering) returns
\* 200 and changes the record only by setting deletedAt: the record stays
\* in the table under the same (id, accountId) key with all its other
\* attributes unchanged, and no other record is modified.
C20_DeleteSetsDeletedAtOnly ==
    (op = "delete_part")
      => /\ (Healthy /\ LiveItems(before, PathUuid(event)) # {})
               => response.statusCode = 200
         /\ (response.statusCode = 200)
               => /\ response.body.message = "Part deleted successfully"
                  /\ \E old \in LiveItems(before, PathUuid(event)) :
                        \E new \in table :
                           /\ table = (before \ {old}) \cup {new}
                           /\ new \notin before
                           /\ DOMAIN new = DOMAIN old \cup {"deletedAt"}
                           /\ \A a \in DOMAIN old : new[a] = old[a]
                           /\ new["PK"] = VStr(PathUuid(event))
                           /\ new["deletedAt"] = VTs(clock - 1)
                  /\ Cardinality(table) = Cardinality(before)

\* a Delete succeeded while the table holds another, live record
C20_Witness ==
    /\ op = "delete_part"
    /\ response.statusCode = 200
    /\ Cardinality(table) = 2
    /\ \E i \in ItemsOf(table, PathUuid(event)) : "deletedAt" \in DOMAIN i
    /\ \E j \in table : j["PK"] # VStr(PathUuid(event)) /\ "deletedAt" \notin DOMAIN j

\* C21: the validator is idempotent in Update mode: whenever validate
\* succeeds on an input (in Create or Update mode), validating its output
\* in Update mode succeeds and gives the same output.
C21_ValidatorIdempotent ==
    (probe.call = "validate_part_data again")
      => /\ probe.again.ok
         /\ probe.again.data = probe.validated.data
         /\ probe.again = probe.validated

\* the output of a Create-mode validation that coerced "5.5" and carries a
\* complete part was validated again
C21_Witness ==
    /\ probe.call = "validate_part_data again"
    /\ ~probe.is_update
    /\ probe.data[Len(probe.data)].v = VStr("5.5")
    /\ probe.validated.data # EmptyItem
    /\ probe.again.data[probe.data[Len(probe.data)].k] = VFlt(55)

\* C24: in every reachable state each stored record's sort key equals its
\* accountId attribute: Create stores them equal and no sequence of Updates,
\* including ones whose payload carries accountId, makes them differ.
C24_SortKeyIsAccountId ==
    \A i \in table : "accountId" \in DOMAIN i /\ i["SK"] = i["accountId"]

\* the reserved words C26 lists
ReservedList ==
    {"segment", "category", "status", "name", "size", "type", "data", "count",
     "group", "order", "range", "key", "value", "time", "date"}

\* the assignments of the request that carry field's value
AssignmentsOf(params, field) ==
    {k \in 1..Len(params.UpdateExpression) :
        params.UpdateExpression[k].placeholder = field}

\* C26: in the update request Update builds, every validated field whose
\* lower-cased name is a reserved word is written through the alias
\* "#<field>" mapped to the field name, every other field under its own
\* name; the alias map is passed only when it is not empty; each validated
\* field appears exactly once, with its value, next to updatedAt.
C26_ReservedWordsAliased ==
    (probe.call = "update_params")
      => LET p == probe.params
             v == probe.validated.data
         IN  /\ \A f \in DOMAIN v :
                   /\ Cardinality(AssignmentsOf(p, f)) = 1
                   /\ \A k \in AssignmentsOf(p, f) :
                         /\ p.UpdateExpression[k].target.name = f
                         /\ p.UpdateExpression[k].target.hash
                               <=> lower(f) \in ReservedList
                   /\ p.ExpressionAttributeValues[f] = v[f]
                   /\ lower(f) \in ReservedList
                        => /\ f \in DOMAIN p.ExpressionAttributeNames
                           /\ p.ExpressionAttributeNames[f] = VStr(f)
                   /\ lower(f) \notin ReservedList
                        => f \notin DOMAIN p.ExpressionAttributeNames
             /\ DOMAIN p.ExpressionAttributeNames \subseteq DOMAIN v
             /\ p.hasNames <=> DOMAIN p.ExpressionAttributeNames # {}
             /\ Len(p.UpdateExpression) = 1 + Cardinality(DOMAIN v)
             /\ p.UpdateExpression[1].target = Target(FALSE, "updatedAt")
             /\ DOMAIN SetsOf(p) = DOMAIN v \cup {"updatedAt"}

\* a request was built from a payload with the reserved word segment and
\* the plain names accountId and categoryId
C26_Witness ==
    /\ probe.call = "update_params"
    /\ {"segment", "accountId", "categoryId"} \subseteq DOMAIN probe.validated.data
    /\ probe.params.hasNames
    /\ DOMAIN probe.params.ExpressionAttributeNames = {"segment"}

\* the record the last request's fetch found before it ran
FetchedBefore == get_part_by_uuid(before, PathUuid(event)).item

\* the attributes the last Update's payload may set
PayloadFields ==
    DOMAIN validate_part_data(ParseBody(event).part.data, TRUE).data \cup {"updatedAt"}

\* the last Update changed only the record with the fetched record's id and
\* the sort key held by its attribute sk, and there only the payload's fields
UpdateFrame(sk) ==
    LET old == FetchedBefore
    IN  \E new \in table :
           /\ HasKey(new, VStr(PathUuid(event)), old[sk])
           /\ HasKey(old, VStr(PathUuid(event)), old[sk])
           /\ table \ {new} = before \ {old}
           /\ DOMAIN new = DOMAIN old \cup PayloadFields
           /\ \A a \in DOMAIN old \ PayloadFields : new[a] = old[a]

\* C25: a successful Update modifies only the record identified by the id
\* and the accountId of the fetched record and, in it, only the validated
\* fields of the payload plus updatedAt; every other attribute and record
\* is unchanged; Get and every request answered 4xx leave the table as it was.
C25_UpdateFrame ==
    /\ (op = "update_part" /\ response.statusCode = 200) => UpdateFrame("accountId")
    /\ (op = "get_part" \/ response.statusCode \in 400..499) => table = before

\* the concurrent invocations that have written
Writers == {p \in Procs : inflight[p].order > 0}

\* the invocation whose write of attribute f executed last
LastSetter(f) ==
    CHOOSE p \in Writers :
        /\ f \in DOMAIN inflight[p].sets
        /\ \A q \in Writers :
              f \in DOMAIN inflight[q].sets => inflight[q].order <= inflight[p].order

\* invocation p is an Update that found its record and has returned
UpdateDone(p) ==
    /\ Route(inflight[p].ev) = "PUT"
    /\ inflight[p].existing.found
    /\ inflight[p].pc = "done"

\* no Delete is among the invocations that have started
OnlyUpdates == \A p \in Procs : Route(inflight[p].ev) # "DELETE"

\* C22: two concurrent Updates of the same live id are not serialized: both
\* return 200, a field both set holds the value of the Update whose write
\* executed last, and a field only one of them set holds that Update's value.
C22_LastWriteWins ==
    \A p, q \in Procs :
        (p # q /\ UpdateDone(p) /\ UpdateDone(q) /\ OnlyUpdates)
          => /\ inflight[p].response.statusCode = 200
             /\ inflight[q].response.statusCode = 200
             /\ \E rec \in LiveItems(table, PathUuid(inflight[p].ev)) :
                   \A f \in DOMAIN inflight[p].sets \cup DOMAIN inflight[q].sets :
                       /\ f \in DOMAIN rec
                       /\ rec[f] = StoredValue(inflight[LastSetter(f)].sets[f])

\* both Updates fetched the record before either wrote it, the one that
\* fetched second wrote first, and each set a field the other did not
C22_Witness ==
    \E p, q \in Procs :
        /\ p # q /\ UpdateDone(p) /\ UpdateDone(q) /\ OnlyUpdates
        /\ "updatedAt" \notin DOMAIN inflight[p].existing.item
        /\ "updatedAt" \notin DOMAIN inflight[q].existing.item
        /\ inflight[p].order < inflight[q].order
        /\ inflight[q].sets["updatedAt"].n < inflight[p].sets["updatedAt"].n
        /\ inflight[p].sets["category"] # inflight[q].sets["category"]
        /\ "customerId" \in DOMAIN inflight[p].sets \ DOMAIN inflight[q].sets
        /\ "locationId" \in DOMAIN inflight[q].sets \ DOMAIN inflight[p].sets

\* C23: in every interleaving of a concurrent Update and Delete, or of two
\* Deletes, on the same id, a record that has deletedAt set is not modified
\* by a later write, and an operation that returns 200 for the id neither
\* observed nor returns a soft-deleted or null part.
C23_DeletedIsFinal ==
    /\ \A i \in before : "deletedAt" \in DOMAIN i => i \in table
    /\ \A p \in Procs :
          (inflight[p].pc = "done" /\ inflight[p].response.statusCode = 200)
            => /\ inflight[p].existing.found
               /\ "deletedAt" \notin DOMAIN inflight[p].existing.item
               /\ Route(inflight[p].ev) = "PUT"
                    => /\ inflight[p].response.body.partKind = "object"
                       /\ "deletedAt" \notin DOMAIN inflight[p].response.body.part

=============================================================================
